---------------------------- MODULE Spec2Model ----------------------------
(***************************************************************************)
(* A model of code/data_wrangling.py of TESSHacks: the three functions     *)
(* read_tess_info, crossmatch_gaia and read_tess_lightcurve, each as a     *)
(* sequential process stepping through its statements.                     *)
(*                                                                         *)
(* Strings are sequences of one-character strings, so that str.split,      *)
(* int() and the glob pattern are computed and not assumed.                *)
(***************************************************************************)
EXTENDS Integers, Sequences, FiniteSets, TLC

VARIABLES
    \* ---- read_tess_info
    fs,          \* the directory tree below the root: a set of entries
    datadir,     \* the argument of read_tess_info (characters)
    datafiles,   \* line 34: the list glob.glob returned
    tess_info,   \* line 36: the list of row dictionaries
    infoIdx,     \* position of the for loop of line 39 in datafiles
    infoPc,      \* "glob" | "loop" | "returned" | "failed"
    infoErr,     \* the exception that ended the call, or "none"
    infoResult,  \* what the caller receives: the data frame, or None
    \* ---- crossmatch_gaia
    catalog,     \* the argument tess_info: a sequence of tess_id values
    gaia_files,  \* the argument gaia_files: a sequence of file names
    gaiamatch,   \* line 88: the list of loaded tables
    gaia_merged, \* line 94: the concatenated table, or None
    tess_gaia,   \* line 97: the merged frame, or None
    cmIdx,       \* position of the for loop of line 89 in gaia_files
    cmPc,        \* "load" | "concat" | "merge" | "returned" | "failed"
    cmErr,       \* the exception that ended the call, or "none"
    \* ---- read_tess_lightcurve
    fits_file,   \* the FITS file the name in `fname` denotes
    fname,       \* the module global `fname` that line 122 reads, or Unbound
    filename,    \* the parameter filename
    pdc,         \* the parameter pdc
    quality_flag,\* the parameter quality_flag
    handle,      \* "none" | "open" | "closed": the HDUList of line 122
    locals,      \* flux_key, flux_err_key, time, flux, flux_err, quality
    data,        \* the dictionary being filled and returned
    lcPc,        \* "open" | "header" | "fields" | "mask" | "returned" | "failed"
    lcErr        \* the exception that ended the call, or "none"

infoVars == <<fs, datadir, datafiles, tess_info, infoIdx, infoPc, infoErr, infoResult>>
cmVars   == <<catalog, gaia_files, gaiamatch, gaia_merged, tess_gaia, cmIdx, cmPc, cmErr>>
lcVars   == <<fits_file, fname, filename, pdc, quality_flag, handle, locals, data, lcPc, lcErr>>
vars     == <<infoVars, cmVars, lcVars>>

None == "None"

(***************************************************************************)
(* Strings as character sequences.                                         *)
(***************************************************************************)
Chars(s) ==
    CASE s = "data/"            -> <<"d","a","t","a","/">>
      [] s = "/t/data/"         -> <<"/","t","/","d","a","t","a","/">>
      [] s = "batch1"           -> <<"b","a","t","c","h","1">>
      [] s = "in"               -> <<"i","n">>
      [] s = ".hid"             -> <<".","h","i","d">>
      [] s = "a-S1-07-c.fits"   -> <<"a","-","S","1","-","0","7","-","c",".","f","i","t","s">>
      [] s = "b-S2-12-d-e.fits" -> <<"b","-","S","2","-","1","2","-","d","-","e",".","f","i","t","s">>
      [] s = "c-S3-+1_0-f.fits" -> <<"c","-","S","3","-","+","1","_","0","-","f",".","f","i","t","s">>
      [] s = ".a-S1-3-c.fits"   -> <<".","a","-","S","1","-","3","-","c",".","f","i","t","s">>
      [] s = "a-S1-7.fits"      -> <<"a","-","S","1","-","7",".","f","i","t","s">>
      [] s = "a.fits"           -> <<"a",".","f","i","t","s">>
      [] s = "a-S1-x7-c.fits"   -> <<"a","-","S","1","-","x","7","-","c",".","f","i","t","s">>
      [] s = "a-S1-5-c.txt"     -> <<"a","-","S","1","-","5","-","c",".","t","x","t">>

\* str.split(sep): the pieces between the occurrences of the character sep.
RECURSIVE SplitFrom(_, _, _, _)
SplitFrom(s, sep, i, cur) ==
    IF i > Len(s) THEN <<cur>>
    ELSE IF s[i] = sep THEN <<cur>> \o SplitFrom(s, sep, i + 1, <<>>)
    ELSE SplitFrom(s, sep, i + 1, Append(cur, s[i]))

Split(s, sep) == SplitFrom(s, sep, 1, <<>>)

\* Python's negative index l[-k].
FromEnd(l, k) == l[Len(l) + 1 - k]

Digits == {"0","1","2","3","4","5","6","7","8","9"}

DigitVal(c) ==
    CASE c = "0" -> 0 [] c = "1" -> 1 [] c = "2" -> 2 [] c = "3" -> 3
      [] c = "4" -> 4 [] c = "5" -> 5 [] c = "6" -> 6 [] c = "7" -> 7
      [] c = "8" -> 8 [] c = "9" -> 9

\* The literals int() accepts in base 10: an optional sign, then digits with
\* single underscores between them.
IntBodyOk(b) ==
    /\ Len(b) > 0
    /\ b[1] \in Digits
    /\ b[Len(b)] \in Digits
    /\ \A i \in 1..Len(b) :
          \/ b[i] \in Digits
          \/ b[i] = "_" /\ i > 1 /\ i < Len(b) /\ b[i-1] \in Digits /\ b[i+1] \in Digits

Unsigned(t) == IF Len(t) > 0 /\ t[1] \in {"+", "-"} THEN SubSeq(t, 2, Len(t)) ELSE t

IntOk(t) == IntBodyOk(Unsigned(t))

RECURSIVE IntBodyVal(_, _, _)
IntBodyVal(b, i, acc) ==
    IF i > Len(b) THEN acc
    ELSE IF b[i] = "_" THEN IntBodyVal(b, i + 1, acc)
    ELSE IntBodyVal(b, i + 1, 10 * acc + DigitVal(b[i]))

\* np.int is the builtin int (NumPy before 1.24).
np_int(t) ==
    IF Len(t) > 0 /\ t[1] = "-" THEN 0 - IntBodyVal(Unsigned(t), 1, 0)
    ELSE IntBodyVal(Unsigned(t), 1, 0)


(***************************************************************************)
(* The directory tree.  An entry is a name in a directory below the root;  *)
(* an entry with isdir is an empty directory of that name.  A directory    *)
(* of DirPaths exists when some entry lies in it or below it.              *)
(***************************************************************************)
MaxFiles == 2

DataDirs == {"data/", "/t/data/"}

DirPaths == {<<>>, <<"batch1">>, <<"batch1", "in">>, <<".hid">>}

EntryNames == {"a-S1-07-c.fits", "b-S2-12-d-e.fits", "c-S3-+1_0-f.fits",
               ".a-S1-3-c.fits", "a-S1-7.fits", "a.fits", "a-S1-x7-c.fits",
               "a-S1-5-c.txt"}

DirEntryNames == {"b-S2-12-d-e.fits"}

Candidates ==
    [dir : DirPaths, name : EntryNames, isdir : {FALSE}]
      \cup [dir : DirPaths, name : DirEntryNames, isdir : {TRUE}]

\* The subsets of S of at most k elements.
RECURSIVE SubsetsUpTo(_, _)
SubsetsUpTo(S, k) ==
    IF k = 0 THEN {{}}
    ELSE LET smaller == SubsetsUpTo(S, k - 1)
         IN  smaller \cup {t \cup {e} : t \in smaller, e \in S}

\* The trees of at most MaxFiles entries; a directory holds a name once.
Trees ==
    {t \in SubsetsUpTo(Candidates, MaxFiles) :
        \A e1, e2 \in t : e1.dir = e2.dir /\ e1.name = e2.name => e1 = e2}

IsPrefix(p, q) == Len(p) <= Len(q) /\ SubSeq(q, 1, Len(p)) = p

\* The directories of the tree, as component sequences below the root.
ExistingDirs(t) ==
    {<<>>} \cup {p \in DirPaths : \E e \in t : IsPrefix(p, e.dir)}
           \cup {Append(e.dir, e.name) : e \in {x \in t : x.isdir}}

\* os.scandir(d): the names in directory d.
Listing(t, d) ==
    {e.name : e \in {x \in t : x.dir = d}}
      \cup {p[Len(d) + 1] : p \in {q \in ExistingDirs(t) : Len(q) > Len(d) /\ IsPrefix(d, q)}}

\* The names of Listing(t, d) that are directories (dironly=True).
DirListing(t, d) == {x \in Listing(t, d) : Append(d, x) \in ExistingDirs(t)}

RECURSIVE SetToSeq(_)
SetToSeq(S) ==
    IF S = {} THEN <<>>
    ELSE LET x == CHOOSE y \in S : TRUE IN <<x>> \o SetToSeq(S \ {x})

RECURSIVE Flatten(_)
Flatten(ss) == IF ss = <<>> THEN <<>> ELSE Head(ss) \o Flatten(Tail(ss))

\* glob._ishidden
IsHidden(name) == Chars(name)[1] = "."

\* fnmatch of the pattern "*.fits": the name ends in ".fits".
FnmatchFits(name) ==
    LET c == Chars(name) IN
    /\ Len(c) >= 5
    /\ SubSeq(c, Len(c) - 4, Len(c)) = <<".", "f", "i", "t", "s">>

\* A traversal that does not descend: only the directories directly in d.
RlistdirFlat(t, d) ==
    LET names == SetToSeq({x \in DirListing(t, d) : Chars(x)[1] # "."})
    IN  [i \in 1..Len(names) |-> Append(d, names[i])]

\* glob._rlistdir(d, dironly=True): the directories below d, hidden ones and
\* what lies below them left out.
RECURSIVE Rlistdir(_, _)
Rlistdir(t, d) ==
    LET names == SetToSeq({x \in DirListing(t, d) : ~IsHidden(x)})
    IN  Flatten([i \in 1..Len(names) |->
                    <<Append(d, names[i])>> \o Rlistdir(t, Append(d, names[i]))])

\* glob._glob2(root, "**", dironly=True): the root itself, then Rlistdir.
Glob2(t) == <<(<<>>)>> \o Rlistdir(t, <<>>)

\* glob._glob1(d, "*.fits"): the names of d that are not hidden and match.
Glob1(t, d) == SetToSeq({x \in Listing(t, d) : ~IsHidden(x) /\ FnmatchFits(x)})

\* os.path.join(a, b) on character sequences.
PathJoin(a, b) ==
    IF Len(b) > 0 /\ b[1] = "/" THEN b
    ELSE IF Len(a) = 0 \/ a[Len(a)] = "/" THEN a \o b
    ELSE a \o <<"/">> \o b

RECURSIVE JoinAll(_, _)
JoinAll(a, comps) ==
    IF comps = <<>> THEN a ELSE JoinAll(PathJoin(a, Chars(Head(comps))), Tail(comps))

\* os.path.split(datadir + "**")[0]: datadir without its trailing separator.
GlobDirname(dd) == SubSeq(Chars(dd), 1, Len(Chars(dd)) - 1)

\* glob.glob(datadir + "**/*.fits", recursive=True), in one of its orders.
GlobList(t, dd) ==
    LET dirs == Glob2(t)
    IN  Flatten([i \in 1..Len(dirs) |->
          LET names == Glob1(t, dirs[i])
          IN  [k \in 1..Len(names) |->
                 PathJoin(PathJoin(GlobDirname(dd), JoinAll(<<>>, dirs[i])),
                          Chars(names[k]))]])

\* The orders a list may come in: os.scandir fixes none.
Orders(l) ==
    {[i \in 1..Len(l) |-> l[p[i]]] : p \in Permutations(1..Len(l))}

(***************************************************************************)
(* read_tess_info, lines 33-66.                                            *)
(***************************************************************************)
\* A decoding whose indices are off by one: the sub-directory is taken from
\* the last path component and the cadence from the third token.
DecodeRowShifted(f) ==
    LET fsplit      == Split(f, "/")
        base        == FromEnd(fsplit, 1)
        fname_split == Split(base, "-")
    IN  [subdir    |-> FromEnd(fsplit, 1),
         filename  |-> base,
         daterange |-> fname_split[1],
         sector_no |-> fname_split[2],
         tess_id   |-> np_int(fname_split[3]),
         cadence   |-> fname_split[3]]

\* Lines 44-58: the row decoded from the path f.
DecodeRow(f) ==
    LET fsplit      == Split(f, "/")
        base        == FromEnd(fsplit, 1)
        fname_split == Split(base, "-")
    IN  [subdir    |-> FromEnd(fsplit, 2),
         filename  |-> base,
         daterange |-> fname_split[1],
         sector_no |-> fname_split[2],
         tess_id   |-> np_int(fname_split[3]),
         cadence   |-> fname_split[4]]

\* Lines 44-58: the exception the loop body raises on the path f, or "none".
DecodeError(f) ==
    LET fsplit      == Split(f, "/")
        fname_split == Split(FromEnd(fsplit, 1), "-")
    IN  IF Len(fsplit) < 2 THEN "IndexError"              \* line 46
        ELSE IF Len(fname_split) < 2 THEN "IndexError"    \* line 56
        ELSE IF Len(fname_split) < 3 THEN "IndexError"    \* line 57, the index
        ELSE IF ~IntOk(fname_split[3]) THEN "ValueError"  \* line 57, np.int
        ELSE IF Len(fname_split) < 4 THEN "IndexError"    \* line 58
        ELSE "none"

InfoIdle ==
    /\ fs = {} /\ datadir = "data/" /\ datafiles = <<>> /\ tess_info = <<>>
    /\ infoIdx = 0 /\ infoPc = "idle" /\ infoErr = "none" /\ infoResult = None

InitInfoCall ==
    /\ fs \in Trees
    /\ datadir \in DataDirs
    /\ datafiles = <<>>
    /\ tess_info = <<>>
    /\ infoIdx = 0
    /\ infoPc = "glob"
    /\ infoErr = "none"
    /\ infoResult = None

\* Lines 34-36.
InfoGlob ==
    /\ infoPc = "glob"
    /\ datafiles' \in Orders(GlobList(fs, datadir))
    /\ tess_info' = <<>>
    /\ infoIdx' = 1
    /\ infoPc' = "loop"
    /\ UNCHANGED <<fs, datadir, infoErr, infoResult, cmVars, lcVars>>

\* Lines 39-61: one pass of the loop that appends a row.
InfoRow ==
    /\ infoPc = "loop"
    /\ infoIdx <= Len(datafiles)
    /\ DecodeError(datafiles[infoIdx]) = "none"
    /\ tess_info' = Append(tess_info, DecodeRow(datafiles[infoIdx]))
    /\ infoIdx' = infoIdx + 1
    /\ UNCHANGED <<fs, datadir, datafiles, infoPc, infoErr, infoResult, cmVars, lcVars>>

\* A loop that skips the file it cannot decode and goes on.
InfoSkip ==
    /\ infoPc = "loop"
    /\ infoIdx <= Len(datafiles)
    /\ DecodeError(datafiles[infoIdx]) # "none"
    /\ infoIdx' = infoIdx + 1
    /\ UNCHANGED <<fs, datadir, datafiles, tess_info, infoPc, infoErr, infoResult, cmVars, lcVars>>

\* Lines 39-58: one pass of the loop that raises; the call ends, the list is lost.
InfoRaise ==
    /\ infoPc = "loop"
    /\ infoIdx <= Len(datafiles)
    /\ DecodeError(datafiles[infoIdx]) # "none"
    /\ infoErr' = DecodeError(datafiles[infoIdx])
    /\ infoPc' = "failed"
    /\ UNCHANGED <<fs, datadir, datafiles, tess_info, infoIdx, infoResult, cmVars, lcVars>>

\* Lines 64-66.
InfoReturn ==
    /\ infoPc = "loop"
    /\ infoIdx > Len(datafiles)
    /\ infoResult' = tess_info
    /\ infoPc' = "returned"
    /\ UNCHANGED <<fs, datadir, datafiles, tess_info, infoIdx, infoErr, cmVars, lcVars>>

CmIdle ==
    /\ catalog = <<>> /\ gaia_files = <<>> /\ gaiamatch = <<>> /\ gaia_merged = None
    /\ tess_gaia = None /\ cmIdx = 0 /\ cmPc = "idle" /\ cmErr = "none"

LcIdle ==
    /\ fits_file = None /\ fname = None /\ filename = None /\ pdc = TRUE
    /\ quality_flag = 0 /\ handle = "none" /\ locals = None /\ data = None
    /\ lcPc = "idle" /\ lcErr = "none"

InitInfo == InitInfoCall /\ CmIdle /\ LcIdle

NextInfo == InfoGlob \/ InfoRow \/ InfoRaise \/ InfoReturn

SpecInfo == InitInfo /\ [][NextInfo]_vars

(***************************************************************************)
(* Properties of read_tess_info.                                           *)
(***************************************************************************)
\* What the well-formed names of EntryNames spell: <d>-<s>-<id>-<c>...
Spelled(n) ==
    CASE n = "a-S1-07-c.fits"   -> [d |-> <<"a">>, s |-> <<"S","1">>, id |-> 7,
                                    c |-> <<"c",".","f","i","t","s">>]
      [] n = "b-S2-12-d-e.fits" -> [d |-> <<"b">>, s |-> <<"S","2">>, id |-> 12, c |-> <<"d">>]

DecimalNames == {"a-S1-07-c.fits", "b-S2-12-d-e.fits"}

\* Names of fewer than four tokens, or whose third token int() rejects.
MalformedNames == {"a-S1-7.fits", "a.fits", "a-S1-x7-c.fits"}

DotName(n) == Chars(n)[1] = "."

\* The entries named *.fits, at any depth.
FitsEntries == {e \in fs : FnmatchFits(e.name)}

\* Those of them the traversal reaches: no name on the way starts with a dot.
Matched ==
    {e \in FitsEntries : ~DotName(e.name) /\ \A i \in 1..Len(e.dir) : ~DotName(e.dir[i])}

\* The name of the directory an entry lies in; the root is named data.
ParentName(e) == IF e.dir = <<>> THEN <<"d","a","t","a">> ELSE Chars(e.dir[Len(e.dir)])

Returned == infoPc = "returned"

\* C1: when the call returns, every matched file named <d>-<s>-<id>-<c>...
\* with a decimal <id> has a row with daterange d, sector_no s, tess_id the
\* integer id, cadence c, the base name as filename and its parent directory's
\* name as subdir.
C1_Decode ==
    Returned =>
        \A e \in Matched :
            e.name \in DecimalNames =>
                \E k \in 1..Len(infoResult) :
                    infoResult[k] = [subdir    |-> ParentName(e),
                                     filename  |-> Chars(e.name),
                                     daterange |-> Spelled(e.name).d,
                                     sector_no |-> Spelled(e.name).s,
                                     tess_id   |-> Spelled(e.name).id,
                                     cadence   |-> Spelled(e.name).c]

\* Two well-formed files under batch1, both decoded, one with a leading zero.
C1_Witness ==
    /\ Returned
    /\ Len(infoResult) = 2
    /\ \A k \in 1..2 : infoResult[k].subdir = Chars("batch1")
    /\ \E k \in 1..2 : infoResult[k].tess_id = 7
    /\ \E k \in 1..2 : infoResult[k].tess_id = 12

\* C5 as claimed: the row count is the number of files named *.fits under the
\* root at any depth.
C5_RowCountAllFits ==
    Returned => Len(infoResult) = Cardinality({e \in FitsEntries : ~e.isdir})

\* C5 amended: the row count is the number of entries (files or directories)
\* named *.fits that the traversal reaches, those whose name and whose
\* directories' names below the root do not start with a dot; each has its
\* own row.
C5_RowCountMatched ==
    Returned =>
        /\ Len(infoResult) = Cardinality(Matched)
        /\ \A e \in Matched :
              \E k \in 1..Len(infoResult) :
                  /\ infoResult[k].filename = Chars(e.name)
                  /\ infoResult[k].subdir = ParentName(e)

\* A file at depth zero and a file at depth two, both counted.
C5_Witness ==
    /\ Returned
    /\ Len(infoResult) = 2
    /\ \E e \in Matched : e.dir = <<>>
    /\ \E e \in Matched : Len(e.dir) = 2

\* C9: if a matched file has a malformed name, the call never returns and the
\* caller gets no catalog; when it has ended, it has ended with an error.
C9_MalformedFails ==
    (\E e \in Matched : e.name \in MalformedNames) =>
        /\ infoPc \in {"glob", "loop", "failed"}
        /\ infoResult = None
        /\ ~(infoPc = "loop" /\ infoIdx > Len(datafiles))
        /\ infoPc = "failed" => infoErr \in {"IndexError", "ValueError"}

\* The malformed file came after a well-formed one, whose row is lost.
C9_Witness ==
    /\ infoPc = "failed"
    /\ Len(tess_info) = 1
    /\ infoResult = None
    /\ \E e \in Matched : e.name \in MalformedNames

(***************************************************************************)
(* crossmatch_gaia, lines 88-99.                                           *)
(*                                                                         *)
(* A catalog is a sequence of rows [tess_id |-> n]; a reference table is a *)
(* sequence of rows, with a ticid column or without one.                   *)
(*                                                                         *)
(* The statements are modelled as they read.  They are indented by three   *)
(* columns under a docstring indented by four, which Python rejects when   *)
(* it compiles the file.                                                   *)
(***************************************************************************)
MaxCat == 3
MaxGaia == 2

TessIds == {1, 2, 3}

GaiaNames == {"g234.csv", "g33.csv", "header_only.csv", "no_ticid.csv", "missing.csv"}

\* The files that exist.
Readable(gf) == gf # "missing.csv"

\* pd.read_csv(gf) of a readable file.
read_csv(gf) ==
    CASE gf = "g234.csv"        -> <<[ticid |-> 2], [ticid |-> 3], [ticid |-> 4]>>
      [] gf = "g33.csv"         -> <<[ticid |-> 3], [ticid |-> 3]>>
      [] gf = "header_only.csv" -> <<>>
      [] gf = "no_ticid.csv"    -> <<[source_id |-> 2]>>

\* The sequences over S of length at most n.
SeqsUpTo(S, n) == UNION {[1..k -> S] : k \in 0..n}

InitCmCall ==
    /\ catalog \in SeqsUpTo([tess_id : TessIds], MaxCat)
    /\ gaia_files \in SeqsUpTo(GaiaNames, MaxGaia)
    /\ gaiamatch = <<>>
    /\ gaia_merged = None
    /\ tess_gaia = None
    /\ cmIdx = 1
    /\ cmPc = "load"
    /\ cmErr = "none"

\* Lines 89-91: one pass of the loop, the file read.
CmLoad ==
    /\ cmPc = "load"
    /\ cmIdx <= Len(gaia_files)
    /\ Readable(gaia_files[cmIdx])
    /\ gaiamatch' = Append(gaiamatch, read_csv(gaia_files[cmIdx]))
    /\ cmIdx' = cmIdx + 1
    /\ UNCHANGED <<catalog, gaia_files, gaia_merged, tess_gaia, cmPc, cmErr, infoVars, lcVars>>

\* Line 90: pd.read_csv raises on a file that is not there.
CmLoadRaise ==
    /\ cmPc = "load"
    /\ cmIdx <= Len(gaia_files)
    /\ ~Readable(gaia_files[cmIdx])
    /\ cmErr' = "FileNotFoundError"
    /\ cmPc' = "failed"
    /\ UNCHANGED <<catalog, gaia_files, gaiamatch, gaia_merged, tess_gaia, cmIdx, infoVars, lcVars>>

\* Line 94: pd.concat of a list of frames, ignore_index=True.
CmConcat ==
    /\ cmPc = "load"
    /\ cmIdx > Len(gaia_files)
    /\ gaiamatch # <<>>
    /\ gaia_merged' = Flatten(gaiamatch)
    /\ cmPc' = "merge"
    /\ UNCHANGED <<catalog, gaia_files, gaiamatch, tess_gaia, cmIdx, cmErr, infoVars, lcVars>>

\* Line 94: pd.concat of an empty list raises "No objects to concatenate".
CmConcatRaise ==
    /\ cmPc = "load"
    /\ cmIdx > Len(gaia_files)
    /\ gaiamatch = <<>>
    /\ cmErr' = "ValueError"
    /\ cmPc' = "failed"
    /\ UNCHANGED <<catalog, gaia_files, gaiamatch, gaia_merged, tess_gaia, cmIdx, infoVars, lcVars>>

\* Line 97: pd.merge is given gaiamatch, the list of frames, as its right
\* operand, and raises "Can only merge Series or DataFrame objects"; line 99
\* is never reached.
CmMergeRaise ==
    /\ cmPc = "merge"
    /\ cmErr' = "TypeError"
    /\ cmPc' = "failed"
    /\ UNCHANGED <<catalog, gaia_files, gaiamatch, gaia_merged, tess_gaia, cmIdx, infoVars, lcVars>>

InitGaia == InfoIdle /\ InitCmCall /\ LcIdle

NextGaia == CmLoad \/ CmLoadRaise \/ CmConcat \/ CmConcatRaise \/ CmMergeRaise

SpecGaia == InitGaia /\ [][NextGaia]_vars

(***************************************************************************)
(* Properties of crossmatch_gaia.                                          *)
(***************************************************************************)
CmEnded == cmPc \in {"returned", "failed"}

\* Every file of the list can be read and has a ticid column.
AllLoadable ==
    \A i \in 1..Len(gaia_files) : gaia_files[i] \in {"g234.csv", "g33.csv", "header_only.csv"}

CatalogIds == {catalog[i].tess_id : i \in 1..Len(catalog)}

ReferenceIds ==
    UNION {{read_csv(gaia_files[i])[k].ticid : k \in 1..Len(read_csv(gaia_files[i]))} :
              i \in 1..Len(gaia_files)}

\* C2: a call on a catalog and a non-empty list of loadable reference files
\* ends by returning a frame whose identifiers are those present on both
\* sides, tess_id == ticid.
C2_InnerJoin ==
    (CmEnded /\ AllLoadable /\ gaia_files # <<>>) =>
        /\ cmPc = "returned"
        /\ tess_gaia # None
        /\ {tess_gaia[i].tess_id : i \in 1..Len(tess_gaia)} = CatalogIds \cap ReferenceIds

\* C7: a call with an empty catalog (and loadable files), or with an empty
\* list of files, ends by returning an empty frame, without an error.
C7_EmptyInputs ==
    (CmEnded /\ AllLoadable /\ (catalog = <<>> \/ gaia_files = <<>>)) =>
        /\ cmPc = "returned"
        /\ cmErr = "none"
        /\ tess_gaia = <<>>

(***************************************************************************)
(* read_tess_lightcurve, lines 122-166.                                    *)
(*                                                                         *)
(* Line 122 opens `fname`, a name the function neither takes nor assigns:  *)
(* Python looks it up among the module's globals, where it is bound only   *)
(* if the caller's program put it there.  The parameter filename is not    *)
(* read.                                                                   *)
(***************************************************************************)
MaxSamples == 4

Unbound == "Unbound"

\* Lines 126-140: the key of data and the header keyword it is read from.
HeaderFields ==
    << <<"tstart", "TSTART">>,     <<"tstop", "TSTOP">>,     <<"date_obs", "DATE-OBS">>,
       <<"date_end", "DATE-END">>, <<"ticid", "TICID">>,     <<"ra", "RA_OBJ">>,
       <<"dec", "DEC_OBJ">>,       <<"pmra", "PMRA">>,       <<"pmdec", "PMDEC">>,
       <<"pmtotal", "PMTOTAL">>,   <<"tessmag", "TESSMAG">>, <<"teff", "TEFF">>,
       <<"log_g", "LOGG">>,        <<"mh", "MH">>,           <<"radius", "RADIUS">> >>

HeaderKeywords == {HeaderFields[i][2] : i \in 1..Len(HeaderFields)}

Columns == {"TIME", "SAP_FLUX", "SAP_FLUX_ERR", "PDCSAP_FLUX", "PDCSAP_FLUX_ERR", "QUALITY"}

QualityValues == {0, 4}

\* Floating-point values: a number, NaN or an infinity.
Num(x) == <<"num", x>>
NaN == <<"nan", 0>>
Inf == <<"inf", 0>>

\* np.isfinite
isfinite(x) == x[1] = "num"

Float(kind, x) == IF kind = "num" THEN Num(x) ELSE IF kind = "nan" THEN NaN ELSE Inf

\* The table of a light curve of n samples: sample i was taken at time 10 i;
\* a flux that is a number is 300 + i (corrected) or 400 + i (uncorrected).
Table(n, q, p, u) ==
    [c \in Columns |->
        CASE c = "TIME"            -> [i \in 1..n |-> Num(10 * i)]
          [] c = "QUALITY"         -> q
          [] c = "PDCSAP_FLUX"     -> [i \in 1..n |-> Float(p[i], 300 + i)]
          [] c = "PDCSAP_FLUX_ERR" -> [i \in 1..n |-> Float(IF p[i] = "num" THEN "num" ELSE "nan", 30 + i)]
          [] c = "SAP_FLUX"        -> [i \in 1..n |-> Float(u[i], 400 + i)]
          [] c = "SAP_FLUX_ERR"    -> [i \in 1..n |-> Float(u[i], 40 + i)]]

FullHeader == [k \in HeaderKeywords |-> <<"value of", k>>]

Without(f, k) == [x \in (DOMAIN f) \ {k} |-> f[x]]

\* The uncorrected flux is a number throughout, or NaN at every second sample.
SapPatterns(n) ==
    {[i \in 1..n |-> "num"], [i \in 1..n |-> IF i % 2 = 0 THEN "nan" ELSE "num"]}

\* A file whose every keyword and column is there.
SoundFile(t) == [exists |-> TRUE, header |-> FullHeader, table |-> t]

\* Files that lack a keyword or a column, and the file that is not there.
BrokenFiles ==
    LET t == Table(2, <<0, 0>>, <<"num", "num">>, <<"num", "num">>)
    IN  {[exists |-> TRUE, header |-> Without(FullHeader, k), table |-> t] :
            k \in {"TSTART", "TICID", "RADIUS"}}
          \cup {[exists |-> TRUE, header |-> FullHeader, table |-> Without(t, c)] :
                  c \in {"TIME", "PDCSAP_FLUX", "SAP_FLUX", "QUALITY"}}
          \cup {[exists |-> FALSE, header |-> FullHeader, table |-> t]}

InitLcCall ==
    /\ \/ /\ fname = "lc.fits"
          /\ \E n \in 0..MaxSamples :
               \E q \in [1..n -> QualityValues], p \in [1..n -> {"num", "nan", "inf"}],
                  u \in SapPatterns(n) :
                   fits_file = SoundFile(Table(n, q, p, u))
       \/ /\ fname \in {"lc.fits", Unbound}
          /\ fits_file \in BrokenFiles
    /\ filename \in {"lc.fits"}
    /\ pdc \in BOOLEAN
    /\ quality_flag \in QualityValues
    /\ handle = "none"
    /\ locals = None
    /\ data = << >>
    /\ lcPc = "open"
    /\ lcErr = "none"

\* The first i header fields, read into a dictionary (lines 125-140).
HeaderDict(i) ==
    [k \in {HeaderFields[j][1] : j \in 1..i} |->
        LET j == CHOOSE x \in 1..i : HeaderFields[x][1] = k
        IN  fits_file.header[HeaderFields[j][2]]]

\* The first header field whose keyword the file lacks, or 0.
FirstMissingField ==
    LET missing == {j \in 1..Len(HeaderFields) : HeaderFields[j][2] \notin DOMAIN fits_file.header}
    IN  IF missing = {} THEN 0 ELSE CHOOSE j \in missing : \A x \in missing : j <= x

\* A slice that keeps the first sample.
KeepAll(s) == s

\* The slice [1:] of lines 153-156.
DropFirst(s) == SubSeq(s, 2, Len(s))

\* A mask that tests the quality alone.
MaskQualityOnly(quality, flux, flag) == [i \in 1..Len(quality) |-> quality[i] = flag]

\* Line 161: (quality == quality_flag) & (np.isfinite(flux)).
Mask(quality, flux, flag) ==
    [i \in 1..Len(quality) |-> quality[i] = flag /\ isfinite(flux[i])]

\* Boolean indexing arr[mask] of lines 163-165.
RECURSIVE ApplyMaskFrom(_, _, _)
ApplyMaskFrom(arr, mask, i) ==
    IF i > Len(arr) THEN <<>>
    ELSE IF mask[i] THEN <<arr[i]>> \o ApplyMaskFrom(arr, mask, i + 1)
    ELSE ApplyMaskFrom(arr, mask, i + 1)

ApplyMask(arr, mask) == ApplyMaskFrom(arr, mask, 1)

\* The columns lines 153-156 read, whatever pdc is.
ColumnsRead == <<"TIME", "PDCSAP_FLUX", "PDCSAP_FLUX_ERR", "QUALITY">>

\* Line 122 when the module has no global fname.
LcOpenNameError ==
    /\ lcPc = "open"
    /\ fname = Unbound
    /\ lcErr' = "NameError"
    /\ lcPc' = "failed"
    /\ UNCHANGED <<fits_file, fname, filename, pdc, quality_flag, handle, locals, data, infoVars, cmVars>>

\* Line 122: fits.open of a file that is there.
LcOpen ==
    /\ lcPc = "open"
    /\ fname # Unbound
    /\ fits_file.exists
    /\ handle' = "open"
    /\ lcPc' = "header"
    /\ UNCHANGED <<fits_file, fname, filename, pdc, quality_flag, locals, data, lcErr, infoVars, cmVars>>

\* Line 122: fits.open of a file that is not there.
LcOpenRaise ==
    /\ lcPc = "open"
    /\ fname # Unbound
    /\ ~fits_file.exists
    /\ lcErr' = "FileNotFoundError"
    /\ lcPc' = "failed"
    /\ UNCHANGED <<fits_file, fname, filename, pdc, quality_flag, handle, locals, data, infoVars, cmVars>>

\* Lines 125-140: every keyword is in the header.
LcHeader ==
    /\ lcPc = "header"
    /\ FirstMissingField = 0
    /\ data' = HeaderDict(Len(HeaderFields))
    /\ lcPc' = "fields"
    /\ UNCHANGED <<fits_file, fname, filename, pdc, quality_flag, handle, locals, lcErr, infoVars, cmVars>>

\* Lines 125-140: a keyword is missing; the KeyError leaves the function,
\* which has no handler and no finally: line 157 is not run.
LcHeaderRaise ==
    /\ lcPc = "header"
    /\ FirstMissingField # 0
    /\ data' = HeaderDict(FirstMissingField - 1)
    /\ lcErr' = "KeyError"
    /\ lcPc' = "failed"
    /\ UNCHANGED <<fits_file, fname, filename, pdc, quality_flag, handle, locals, infoVars, cmVars>>

\* Lines 143-157: the keys are set from pdc, the four columns are read
\* without their first sample, and the file is closed.
LcFields ==
    /\ lcPc = "fields"
    /\ \A i \in 1..Len(ColumnsRead) : ColumnsRead[i] \in DOMAIN fits_file.table
    /\ locals' = [flux_key     |-> IF pdc THEN "PDCSAP_FLUX" ELSE "SAP_FLUX",
                  flux_err_key |-> IF pdc THEN "PDCSAP_FLUX_ERR" ELSE "SAP_FLUX_ERR",
                  time         |-> DropFirst(fits_file.table[ColumnsRead[1]]),
                  flux         |-> DropFirst(fits_file.table[ColumnsRead[2]]),
                  flux_err     |-> DropFirst(fits_file.table[ColumnsRead[3]]),
                  quality      |-> DropFirst(fits_file.table[ColumnsRead[4]])]
    /\ handle' = "closed"
    /\ lcPc' = "mask"
    /\ UNCHANGED <<fits_file, fname, filename, pdc, quality_flag, data, lcErr, infoVars, cmVars>>

\* Lines 153-156: a column is missing; line 157 is not run.
LcFieldsRaise ==
    /\ lcPc = "fields"
    /\ \E i \in 1..Len(ColumnsRead) : ColumnsRead[i] \notin DOMAIN fits_file.table
    /\ lcErr' = "KeyError"
    /\ lcPc' = "failed"
    /\ UNCHANGED <<fits_file, fname, filename, pdc, quality_flag, handle, locals, data, infoVars, cmVars>>

\* A filter whose flux_err is cut by the quality alone.
LcMaskOwnMasks ==
    /\ lcPc = "mask"
    /\ LET mask == Mask(locals.quality, locals.flux, quality_flag)
       IN  data' = data @@ [time     |-> ApplyMask(locals.time, mask),
                            flux     |-> ApplyMask(locals.flux, mask),
                            flux_err |-> ApplyMask(locals.flux_err,
                                           MaskQualityOnly(locals.quality, locals.flux, quality_flag))]
    /\ lcPc' = "returned"
    /\ UNCHANGED <<fits_file, fname, filename, pdc, quality_flag, handle, locals, lcErr, infoVars, cmVars>>

\* Lines 161-166.
LcMask ==
    /\ lcPc = "mask"
    /\ LET mask == Mask(locals.quality, locals.flux, quality_flag)
       IN  data' = data @@ [time     |-> ApplyMask(locals.time, mask),
                            flux     |-> ApplyMask(locals.flux, mask),
                            flux_err |-> ApplyMask(locals.flux_err, mask)]
    /\ lcPc' = "returned"
    /\ UNCHANGED <<fits_file, fname, filename, pdc, quality_flag, handle, locals, lcErr, infoVars, cmVars>>

InitLc == InfoIdle /\ CmIdle /\ InitLcCall

NextLc ==
    \/ LcOpenNameError \/ LcOpen \/ LcOpenRaise \/ LcHeader \/ LcHeaderRaise
    \/ LcFields \/ LcFieldsRaise \/ LcMask

SpecLc == InitLc /\ [][NextLc]_vars

(***************************************************************************)
(* Properties of read_tess_lightcurve.  Raw index i of the source, counted *)
(* from 0, is position i + 1 of a column here.                             *)
(***************************************************************************)
Raw(c) == fits_file.table[c]

NSamples == Len(Raw("TIME"))

LcReturned == lcPc = "returned"

\* Sample i of the file is among the returned ones: its time stamp, which no
\* other sample has, is in the returned time series.
Retained(i) == \E k \in 1..Len(data.time) : data.time[k] = Raw("TIME")[i]

\* C3: past the first sample, a sample is retained exactly if its quality is
\* quality_flag and its flux (the series the function read) is finite; no
\* returned flux is NaN or infinite, and every returned sample has quality
\* quality_flag.
C3_Filter ==
    LcReturned =>
        /\ \A i \in 2..NSamples :
              Retained(i) <=> (Raw("QUALITY")[i] = quality_flag /\ isfinite(Raw("PDCSAP_FLUX")[i]))
        /\ \A k \in 1..Len(data.flux) : isfinite(data.flux[k])
        /\ \A i \in 1..NSamples : Retained(i) => Raw("QUALITY")[i] = quality_flag

\* A sample kept next to one dropped for its quality and one for its flux.
C3_Witness ==
    /\ LcReturned
    /\ \E i, j, k \in 2..NSamples :
          /\ Retained(i)
          /\ Raw("QUALITY")[j] # quality_flag /\ isfinite(Raw("PDCSAP_FLUX")[j]) /\ ~Retained(j)
          /\ Raw("QUALITY")[k] = quality_flag /\ ~isfinite(Raw("PDCSAP_FLUX")[k]) /\ ~Retained(k)

\* The series the pdc flag names, filtered as the function filters.
Selected(col) ==
    LET quality == DropFirst(Raw("QUALITY"))
        flux    == DropFirst(Raw(IF pdc THEN "PDCSAP_FLUX" ELSE "SAP_FLUX"))
    IN  ApplyMask(DropFirst(Raw(col)),
                  [i \in 1..Len(quality) |-> quality[i] = quality_flag /\ isfinite(flux[i])])

\* C4: the returned flux and flux_err are the corrected series when pdc is
\* True and the uncorrected series when pdc is False, filtered by the
\* finiteness of the selected flux.
C4_FluxByFlag ==
    (LcReturned /\ "SAP_FLUX" \in DOMAIN fits_file.table) =>
        /\ data.flux = Selected(IF pdc THEN "PDCSAP_FLUX" ELSE "SAP_FLUX")
        /\ data.flux_err = Selected(IF pdc THEN "PDCSAP_FLUX_ERR" ELSE "SAP_FLUX_ERR")

\* C6: when the call has ended, by a return or by an exception, the file is
\* not open.
C6_HandleReleased == lcPc \in {"returned", "failed"} => handle # "open"

\* C8: of a file of n >= 1 samples each returned series has at most n - 1
\* elements, and the first sample is not among them.
C8_FirstDropped ==
    (LcReturned /\ NSamples >= 1) =>
        /\ Len(data.time) <= NSamples - 1
        /\ Len(data.flux) <= NSamples - 1
        /\ Len(data.flux_err) <= NSamples - 1
        /\ ~Retained(1)
        /\ \A k \in 1..Len(data.flux) : data.flux[k] # Raw("PDCSAP_FLUX")[1]

\* Every sample passes the filter, the first one too, and all but the first
\* are returned.
C8_Witness ==
    /\ LcReturned
    /\ NSamples >= 2
    /\ Raw("QUALITY")[1] = quality_flag
    /\ isfinite(Raw("PDCSAP_FLUX")[1])
    /\ Len(data.time) = NSamples - 1

\* C10: the three returned series have one length, their k-th elements are
\* those of one sample of the file, and the samples come in increasing order.
C10_Aligned ==
    LcReturned =>
        /\ Len(data.time) = Len(data.flux)
        /\ Len(data.time) = Len(data.flux_err)
        /\ \A k \in 1..Len(data.time) :
              \E i \in 1..NSamples :
                  /\ data.time[k] = Raw("TIME")[i]
                  /\ data.flux[k] = Raw("PDCSAP_FLUX")[i]
                  /\ data.flux_err[k] = Raw("PDCSAP_FLUX_ERR")[i]
        /\ \A k \in 1..(Len(data.time) - 1) : data.time[k][2] < data.time[k + 1][2]

\* Two samples returned, with a dropped one between them.
C10_Witness ==
    /\ LcReturned
    /\ Len(data.time) = 2
    /\ NSamples = 4
    /\ Retained(2) /\ ~Retained(3) /\ Retained(4)

=============================================================================
